---- MODULE Spec2Model ----
(***************************************************************************)
(* A model of solve.py: the command line tool that drives the wg-easy web  *)
(* panel through a headless browser.  The module holds                     *)
(*   - the text functions read_names_from_file and read_info, computed on  *)
(*     file contents given as sequences of one-character strings;          *)
(*   - the polling loop of WebAutomation._verify_download against a clock; *)
(*   - the whole run of main(): start-up, dispatch, the batch loop, the    *)
(*     browser steps of login / add_name / download_configuration, and the *)
(*     close in the finally clause.                                        *)
(* The browser, the web panel and the file system are the environment:     *)
(* what they answer is chosen nondeterministically, within what the page   *)
(* currently shows.                                                        *)
(***************************************************************************)
EXTENDS Naturals, Integers, Sequences, FiniteSets, TLC

VARIABLES
    \* ---- the run of main() ----
    pc,              \* position of the program
    mode,            \* args.mode
    info,            \* the dictionary returned by read_info
    names,           \* the list returned by read_names_from_file
    idx,             \* position of the for loop of process_name_list (1-based)
    success_count,   \* success_count of process_name_list
    op,              \* the operation being applied: "none", "add", "download"
    loginRes,        \* what login returned in the current call
    opRes,           \* what the last add_name / download_configuration returned
    exc,             \* the exception in flight: "none", "Exception" (any subclass
                     \* of Exception), "KeyboardInterrupt"
    page,            \* what the browser shows: "blank", "login", "clients"
    driverUp,        \* the browser session answers
    sessionOpened,   \* webdriver.Chrome(...) returned a session
    closeCalls,      \* number of driver.quit() calls
    closeError,      \* driver.quit() raised
    crashAt,         \* where an uncaught exception ended the program
    \* ---- history of the run ----
    callLog,         \* the browser interactions of the current operation call
    missing,         \* the required element the current call failed to locate
    raised,          \* a browser step raised in the current call
    results,         \* what func(name) returned, one entry per finished call
    attempted,       \* the names func was called with, in call order
    reported,        \* the "completed: X/N successful" line was logged
    passwordSubmits, \* number of times the password was typed and submitted
    \* ---- the text functions ----
    text,            \* content of the file being read
    tpc,             \* "idle", "input", "done"
    outNames,        \* result of read_names_from_file
    outInfo,         \* result of read_info: [ok, dict]
    \* ---- _verify_download ----
    vpc,             \* "idle", "start", "test", "exists", "sleep", "ret"
    now,             \* the clock, in ticks
    start_time,      \* start_time of _verify_download
    appearsAt,       \* tick at which <name>.conf appears on disk, -1: never
    lastPoll,        \* tick of the last file_path.exists() call, -1: none yet
    vresult          \* what _verify_download returned

mainVars == <<pc, mode, info, names, idx, success_count, op, loginRes, opRes,
              exc, page, driverUp, sessionOpened, closeCalls, closeError,
              crashAt, callLog, missing, raised, results,
              attempted, reported, passwordSubmits>>
textVars == <<text, tpc, outNames, outInfo>>
verifyVars == <<vpc, now, start_time, appearsAt, lastPoll, vresult>>
vars == <<mainVars, textVars, verifyVars>>

-----------------------------------------------------------------------------
\* Bounds of the model.

\* longest name file explored by SpecNames
MaxNamesLen == 6
\* longest config file explored by SpecInfo
MaxInfoLen == 6
\* longest name file read by the run of main()
MaxListLen == 5
\* clock ticks per second
TicksPerSec == 2

-----------------------------------------------------------------------------
\* Text: a string is a sequence of one-character strings.

Whitespace == {" ", "\n"}

\* all strings over alphabet A of length at most n
RECURSIVE Texts(_, _)
Texts(A, n) ==
    IF n = 0 THEN {<<>>}
    ELSE LET shorter == Texts(A, n - 1)
         IN  shorter \cup {Append(s, c) : s \in {t \in shorter : Len(t) = n - 1}, c \in A}

\* index of the first occurrence of c in s, 0 when there is none
RECURSIVE IndexFrom(_, _, _)
IndexFrom(s, c, i) ==
    IF i > Len(s) THEN 0
    ELSE IF s[i] = c THEN i
    ELSE IndexFrom(s, c, i + 1)

Find(s, c) == IndexFrom(s, c, 1)

\* iterating a text file: the lines, each with its terminating newline, the
\* last one without when the file does not end in a newline
RECURSIVE FileLines(_)
FileLines(t) ==
    IF t = <<>> THEN <<>>
    ELSE LET n == Find(t, "\n")
         IN  IF n = 0 THEN <<t>>
             ELSE <<SubSeq(t, 1, n)>> \o FileLines(SubSeq(t, n + 1, Len(t)))

RECURSIVE LStrip(_)
LStrip(s) ==
    IF s # <<>> /\ Head(s) \in Whitespace THEN LStrip(Tail(s)) ELSE s

RECURSIVE RStrip(_)
RStrip(s) ==
    IF s # <<>> /\ s[Len(s)] \in Whitespace THEN RStrip(SubSeq(s, 1, Len(s) - 1)) ELSE s

\* variant of Strip: str.lstrip()
StripLeftOnly(s) == LStrip(s)

\* str.strip()
Strip(s) == RStrip(LStrip(s))

RECURSIVE MapStrip(_)
MapStrip(ls) ==
    IF ls = <<>> THEN <<>> ELSE <<Strip(Head(ls))>> \o MapStrip(Tail(ls))

\* [line.strip() for line in file if line.strip()]
read_names_from_file(t) ==
    MapStrip(SelectSeq(FileLines(t), LAMBDA line : Strip(line) # <<>>))

EmptyDict == [k \in {} |-> <<>>]

\* info[key] = value, keeping the first value of a key
SetItemKeepFirst(d, key, value) ==
    [k \in DOMAIN d \cup {key} |-> IF k \in DOMAIN d THEN d[k] ELSE value]

\* info[key] = value
SetItem(d, key, value) ==
    [k \in DOMAIN d \cup {key} |-> IF k = key THEN value ELSE d[k]]

\* the loop of read_info over the lines still to read; r is [ok, dict] so far.
\* line.split('=', 1) of a line without '=' has one element, and unpacking it
\* into key, value raises ValueError: ok becomes FALSE and the loop ends.
RECURSIVE InfoLoop(_, _)
InfoLoop(ls, d) ==
    IF ls = <<>> THEN [ok |-> TRUE, dict |-> d]
    ELSE LET line == Strip(Head(ls))
             eq   == Find(line, "=")
         IN  IF line # <<>> /\ Head(line) # "#"
             THEN IF eq = 0
                  THEN [ok |-> FALSE, dict |-> EmptyDict]
                  ELSE InfoLoop(Tail(ls),
                                SetItem(d,
                                        Strip(SubSeq(line, 1, eq - 1)),
                                        Strip(SubSeq(line, eq + 1, Len(line)))))
             ELSE InfoLoop(Tail(ls), d)

read_info(t) == InfoLoop(FileLines(t), EmptyDict)

-----------------------------------------------------------------------------
\* Values the variable groups hold while another part of the program is the
\* one being explored.

MainIdle ==
    /\ pc = "idle" /\ mode = "none" /\ info = EmptyDict /\ names = <<>>
    /\ idx = 0 /\ success_count = 0 /\ op = "none" /\ loginRes = "none"
    /\ opRes = "none" /\ exc = "none" /\ page = "blank" /\ driverUp = FALSE
    /\ sessionOpened = FALSE /\ closeCalls = 0 /\ closeError = FALSE
    /\ crashAt = "none" /\ callLog = <<>>
    /\ missing = "none" /\ raised = FALSE /\ results = <<>>
    /\ attempted = <<>> /\ reported = FALSE /\ passwordSubmits = 0

TextIdle ==
    /\ text = <<>> /\ tpc = "idle" /\ outNames = <<>>
    /\ outInfo = [ok |-> TRUE, dict |-> EmptyDict]

VerifyIdle ==
    /\ vpc = "idle" /\ now = 0 /\ start_time = 0 /\ appearsAt = -1
    /\ lastPoll = -1 /\ vresult = FALSE

-----------------------------------------------------------------------------
\* read_names_from_file on every name file up to MaxNamesLen characters.

NamesAlphabet == {"a", " ", "#", "\n"}

InitNames ==
    /\ text \in Texts(NamesAlphabet, MaxNamesLen)
    /\ tpc = "input" /\ outNames = <<>>
    /\ outInfo = [ok |-> TRUE, dict |-> EmptyDict]
    /\ MainIdle /\ VerifyIdle

LoadNames ==
    /\ tpc = "input"
    /\ outNames' = read_names_from_file(text)
    /\ tpc' = "done"
    /\ UNCHANGED <<text, outInfo, mainVars, verifyVars>>

SpecNames == InitNames /\ [][LoadNames]_vars

\* read_info on every config file up to MaxInfoLen characters.

InfoAlphabet == {"a", " ", "#", "=", "\n"}

InitInfo ==
    /\ text \in Texts(InfoAlphabet, MaxInfoLen)
    /\ tpc = "input" /\ outNames = <<>>
    /\ outInfo = [ok |-> TRUE, dict |-> EmptyDict]
    /\ MainIdle /\ VerifyIdle

ParseInfo ==
    /\ tpc = "input"
    /\ outInfo' = read_info(text)
    /\ tpc' = "done"
    /\ UNCHANGED <<text, outNames, mainVars, verifyVars>>

SpecInfo == InitInfo /\ [][ParseInfo]_vars

-----------------------------------------------------------------------------
\* The lines of `text`, described by positions instead of computed by the loop.

Min(S) == CHOOSE x \in S : \A y \in S : x <= y
Max(S) == CHOOSE x \in S : \A y \in S : x >= y

\* positions at which a line of the file starts
LineStarts == {i \in 1..Len(text) : i = 1 \/ text[i - 1] = "\n"}

\* last position of the line that starts at i (its newline, or the end of file)
LineEnd(i) ==
    LET nl == {j \in i..Len(text) : text[j] = "\n"}
    IN  IF nl = {} THEN Len(text) ELSE Min(nl)

\* positions of the characters between a and b that are not whitespace
Solid(a, b) == {k \in a..b : text[k] \notin Whitespace}

\* the text between a and b without its surrounding whitespace
Trimmed(a, b) ==
    IF Solid(a, b) = {} THEN <<>> ELSE SubSeq(text, Min(Solid(a, b)), Max(Solid(a, b)))

NonBlankStarts == {i \in LineStarts : Solid(i, LineEnd(i)) # {}}

IsComment(i) == text[Min(Solid(i, LineEnd(i)))] = "#"

NonCommentStarts == {i \in NonBlankStarts : ~IsComment(i)}

\* position among the lines of S of the line that starts at i
Rank(S, i) == Cardinality({j \in S : j <= i})

\* position of the first '=' of the line that starts at i, 0 when it has none
FirstEq(i) ==
    LET eqs == {k \in i..LineEnd(i) : text[k] = "="}
    IN  IF eqs = {} THEN 0 ELSE Min(eqs)

KeyOf(i) == Trimmed(i, FirstEq(i) - 1)
ValueOf(i) == Trimmed(FirstEq(i) + 1, LineEnd(i))

\* C7 (as amended): read_names_from_file returns, in file order, one name per
\* non-blank line of the file, each being the line without its surrounding
\* whitespace; no returned name is empty or starts or ends with whitespace.  A
\* line that starts with '#' is a name like any other.
C7_NamesAreStrippedNonBlankLines ==
    tpc = "done" =>
        /\ Len(outNames) = Cardinality(NonBlankStarts)
        /\ \A i \in NonBlankStarts :
               outNames[Rank(NonBlankStarts, i)] = Trimmed(i, LineEnd(i))
        /\ \A n \in DOMAIN outNames :
               /\ outNames[n] # <<>>
               /\ outNames[n][1] \notin Whitespace
               /\ outNames[n][Len(outNames[n])] \notin Whitespace

\* C7 witness: a file with a blank line, a line with surrounding whitespace and
\* a '#' line was loaded, and the '#' line is among the names.
C7_Witness ==
    /\ tpc = "done"
    /\ LineStarts \ NonBlankStarts # {}
    /\ \E i \in NonBlankStarts : Trimmed(i, LineEnd(i)) # SubSeq(text, i, LineEnd(i) - 1)
    /\ \E n \in DOMAIN outNames : outNames[n][1] = "#"
    /\ Len(outNames) >= 2

\* C7 as stated: one name per non-blank, non-comment line, so that no
\* '#'-prefixed line becomes a name.
C7_Original ==
    tpc = "done" =>
        /\ Len(outNames) = Cardinality(NonCommentStarts)
        /\ \A i \in NonCommentStarts :
               outNames[Rank(NonCommentStarts, i)] = Trimmed(i, LineEnd(i))
        /\ \A n \in DOMAIN outNames : outNames[n][1] # "#"

\* C8 (as amended): read_info ignores blank lines and '#' comment lines; when
\* every other line contains '=', it returns the dictionary that maps the
\* trimmed text before the first '=' of each such line to the trimmed text
\* after it, with one entry per distinct key and the last line of a key
\* winning; when some other line has no '=', it raises ValueError instead of
\* returning.
C8_InfoIsLastWinsDict ==
    tpc = "done" =>
        /\ outInfo.ok <=> \A i \in NonCommentStarts : FirstEq(i) # 0
        /\ outInfo.ok =>
               /\ DOMAIN outInfo.dict = {KeyOf(i) : i \in NonCommentStarts}
               /\ \A i \in NonCommentStarts :
                      (\A j \in NonCommentStarts : j > i => KeyOf(j) # KeyOf(i))
                          => outInfo.dict[KeyOf(i)] = ValueOf(i)

\* C8 witness: a file in which a key occurs on two lines with different values
\* was parsed into a dictionary.
C8_Witness ==
    /\ tpc = "done"
    /\ outInfo.ok
    /\ \E i, j \in NonCommentStarts :
           i < j /\ KeyOf(i) = KeyOf(j) /\ ValueOf(i) # ValueOf(j)

\* C8 as stated: every line that is neither blank nor a comment yields an
\* entry of the returned dictionary.
C8_Original ==
    tpc = "done" =>
        /\ outInfo.ok
        /\ DOMAIN outInfo.dict = {KeyOf(i) : i \in NonCommentStarts}
        /\ \A i \in NonCommentStarts :
               (\A j \in NonCommentStarts : j > i => KeyOf(j) # KeyOf(i))
                   => outInfo.dict[KeyOf(i)] = ValueOf(i)

-----------------------------------------------------------------------------
\* WebAutomation._verify_download against a clock.  The statements of the loop
\* take no time; time.sleep(1) takes one second, or one tick more.  The file
\* <name>.conf appears on disk at tick appearsAt and stays.

download_wait == 15

\* the wait window, in ticks
Window == download_wait * TicksPerSec

FileExists == appearsAt # -1 /\ now >= appearsAt

InitVerify ==
    /\ vpc = "start" /\ now = 0 /\ start_time = 0
    /\ appearsAt \in -1..(Window + TicksPerSec)
    /\ lastPoll = -1 /\ vresult = FALSE
    /\ MainIdle /\ TextIdle

\* start_time = time.time()
VerifyStart ==
    /\ vpc = "start"
    /\ start_time' = now
    /\ vpc' = "test"
    /\ UNCHANGED <<now, appearsAt, lastPoll, vresult, mainVars, textVars>>

\* variant of InWindow: the loop test with <=
InWindowInclusive == now - start_time <= Window

\* while time.time() - start_time < self.config.download_wait
InWindow == now - start_time < Window

VerifyTest ==
    /\ vpc = "test"
    /\ IF InWindow
       THEN vpc' = "exists" /\ UNCHANGED vresult
       ELSE vpc' = "ret" /\ vresult' = FALSE
    /\ UNCHANGED <<now, start_time, appearsAt, lastPoll, mainVars, textVars>>

\* if file_path.exists(): return True
VerifyExists ==
    /\ vpc = "exists"
    /\ lastPoll' = now
    /\ IF FileExists
       THEN vpc' = "ret" /\ vresult' = TRUE
       ELSE vpc' = "sleep" /\ UNCHANGED vresult
    /\ UNCHANGED <<now, start_time, appearsAt, mainVars, textVars>>

\* time.sleep(1)
VerifySleep ==
    /\ vpc = "sleep"
    /\ \E d \in {TicksPerSec, TicksPerSec + 1} : now' = now + d
    /\ vpc' = "test"
    /\ UNCHANGED <<start_time, appearsAt, lastPoll, vresult, mainVars, textVars>>

NextVerify == VerifyStart \/ VerifyTest \/ VerifyExists \/ VerifySleep

SpecVerify == InitVerify /\ [][NextVerify]_vars

\* the file exists at some instant of the window [start_time, start_time + Window)
ExistsInWindow == appearsAt # -1 /\ appearsAt < start_time + Window

\* C5 (as amended): _verify_download returns true only if <name>.conf exists at
\* some instant of the wait window, namely at one of its polls; it returns
\* false exactly when the file exists at none of the polls, the last of which
\* is made less than download_wait seconds after the start.  A file that
\* appears in the window after the last poll is missed.
C5_TrueOnlyInWindowFalseIffNoPollSaw ==
    vpc = "ret" =>
        /\ lastPoll # -1
        /\ lastPoll - start_time < Window
        /\ vresult => ExistsInWindow
        /\ vresult <=> (appearsAt # -1 /\ appearsAt <= lastPoll)

\* C5 witness: the file appeared after the first poll, inside the window, and
\* the poll after it returned true.
C5_Witness ==
    /\ vpc = "ret" /\ vresult
    /\ appearsAt > start_time
    /\ lastPoll >= appearsAt

\* C5 as stated: false is returned exactly when the file exists at no instant
\* of the window.
C5_Original ==
    vpc = "ret" => (vresult <=> ExistsInWindow)

-----------------------------------------------------------------------------
\* The run of main().

Modes == {"add-list", "add-one", "download-list", "download-one", "none"}
ListModes == {"add-list", "download-list"}

KeyIP == <<"I", "P">>
KeyPassword == <<"p", "a", "s", "s", "w", "o", "r", "d">>

\* contents of info.txt the run may find
InfoFiles ==
    { KeyIP \o <<"=", "1", "\n">> \o KeyPassword \o <<"=", "x", "\n">>,
      <<"#", " ", "c", "\n", "\n">> \o KeyIP \o <<" ", "=", " ", "1", "\n">>
          \o KeyPassword \o <<"=", "x", "=", "y">>,
      KeyIP \o <<"=", "1", "\n">>,
      KeyPassword \o <<"=", "x", "\n">>,
      KeyIP \o <<"=", "1", "\n">> \o KeyPassword \o <<"\n">>,
      <<>> }

\* contents of the name file the run may find
ListAlphabet == {"a", "\n"}
NameFiles == Texts(ListAlphabet, MaxListLen)

startV == <<mode, info>>
batchV == <<names, idx, success_count, results, attempted, reported>>
callV == <<op, loginRes, opRes, exc, callLog, missing, raised>>
browserV == <<page, driverUp, passwordSubmits>>
endV == <<sessionOpened, closeCalls, closeError, crashAt>>

\* positions inside the try block of main()
LoginPcs == {"login_probe", "login_get", "login_fields", "login_submit",
             "login_verify", "login_except"}
AddPcs == {"add_button", "add_input", "add_submit", "add_verify"}
DownloadPcs == {"dl_row", "dl_link", "dl_get", "dl_verify"}
CallPcs == LoginPcs \cup AddPcs \cup DownloadPcs \cup {"after_login", "op_except"}
TryPcs == CallPcs \cup {"dispatch", "read_names", "loop", "loop_update"}

InitMain ==
    /\ pc = "read_info" /\ mode \in Modes /\ info = EmptyDict /\ names = <<>>
    /\ idx = 0 /\ success_count = 0 /\ op = "none" /\ loginRes = "none"
    /\ opRes = "none" /\ exc = "none" /\ page = "blank" /\ driverUp = FALSE
    /\ sessionOpened = FALSE /\ closeCalls = 0 /\ closeError = FALSE
    /\ crashAt = "none" /\ callLog = <<>>
    /\ missing = "none" /\ raised = FALSE /\ results = <<>>
    /\ attempted = <<>> /\ reported = FALSE /\ passwordSubmits = 0
    /\ TextIdle /\ VerifyIdle

\* an uncaught exception before the try block ends the program
Crash(where) ==
    /\ pc' = "crashed" /\ crashAt' = where
    /\ UNCHANGED <<startV, batchV, callV, browserV, sessionOpened, closeCalls, closeError>>

\* info = read_info('info.txt'): open() raises when the file cannot be read,
\* the loop raises ValueError on a line without '='
ReadInfo ==
    /\ pc = "read_info"
    /\ \E readable \in BOOLEAN, f \in InfoFiles :
           IF ~readable THEN Crash("open_config")
           ELSE IF ~read_info(f).ok THEN Crash("parse_config")
           ELSE /\ info' = read_info(f).dict
                /\ pc' = "lookup"
                /\ UNCHANGED <<mode, batchV, callV, browserV, endV>>
    /\ UNCHANGED <<textVars, verifyVars>>

\* info['IP'], info['password']: KeyError when the key is missing
LookupKeys ==
    /\ pc = "lookup"
    /\ IF KeyIP \notin DOMAIN info \/ KeyPassword \notin DOMAIN info
       THEN Crash("missing_key")
       ELSE /\ pc' = "construct"
            /\ UNCHANGED <<startV, batchV, callV, browserV, endV>>
    /\ UNCHANGED <<textVars, verifyVars>>

\* automation = WebAutomation(config): the browser starts on a blank page, or
\* webdriver.Chrome raises
Construct ==
    /\ pc = "construct"
    /\ \E started \in BOOLEAN :
           IF started
           THEN /\ sessionOpened' = TRUE /\ driverUp' = TRUE /\ page' = "blank"
                /\ pc' = "dispatch"
                /\ UNCHANGED <<startV, batchV, callV, passwordSubmits,
                               closeCalls, closeError, crashAt>>
           ELSE Crash("construct")
    /\ UNCHANGED <<textVars, verifyVars>>

\* entering login() at the top of add_name / download_configuration
EnterCall(operation) ==
    /\ op' = operation /\ loginRes' = "none" /\ opRes' = "none" /\ exc' = "none"
    /\ callLog' = <<>> /\ missing' = "none" /\ raised' = FALSE
    /\ pc' = "login_probe"

\* the if / elif chain of main()
Dispatch ==
    /\ pc = "dispatch"
    /\ IF mode \in ListModes
       THEN pc' = "read_names" /\ UNCHANGED callV
       ELSE IF mode = "add-one" THEN EnterCall("add")
       ELSE IF mode = "download-one" THEN EnterCall("download")
       ELSE pc' = "finally" /\ UNCHANGED callV
    /\ UNCHANGED <<startV, batchV, browserV, endV, textVars, verifyVars>>

\* names = read_names_from_file(args.filename), which returns [] when the file
\* cannot be read; an empty list is logged and main returns through finally,
\* otherwise process_name_list starts with success_count = 0
\* variant of ReadNames: the return on an empty list leaves main at once
ReadNamesSkipClose ==
    /\ pc = "read_names"
    /\ \E readable \in BOOLEAN, f \in NameFiles :
           LET ns == IF readable THEN read_names_from_file(f) ELSE <<>>
           IN  /\ names' = ns
               /\ IF ns = <<>>
                  THEN pc' = "done" /\ UNCHANGED <<idx, success_count, op>>
                  ELSE /\ pc' = "loop" /\ idx' = 1 /\ success_count' = 0
                       /\ op' = IF mode = "add-list" THEN "add" ELSE "download"
    /\ UNCHANGED <<startV, results, attempted, reported, loginRes, opRes, exc,
                   callLog, missing, raised, browserV, endV, textVars, verifyVars>>

ReadNames ==
    /\ pc = "read_names"
    /\ \E readable \in BOOLEAN, f \in NameFiles :
           LET ns == IF readable THEN read_names_from_file(f) ELSE <<>>
           IN  /\ names' = ns
               /\ IF ns = <<>>
                  THEN pc' = "finally" /\ UNCHANGED <<idx, success_count, op>>
                  ELSE /\ pc' = "loop" /\ idx' = 1 /\ success_count' = 0
                       /\ op' = IF mode = "add-list" THEN "add" ELSE "download"
    /\ UNCHANGED <<startV, results, attempted, reported, loginRes, opRes, exc,
                   callLog, missing, raised, browserV, endV, textVars, verifyVars>>

\* for name in names: func(name)
LoopCall ==
    /\ pc = "loop"
    /\ idx <= Len(names)
    /\ attempted' = Append(attempted, names[idx])
    /\ EnterCall(op)
    /\ UNCHANGED <<startV, names, idx, success_count, results, reported,
                   browserV, endV, textVars, verifyVars>>

\* the loop is over: "completed: X/N successful"
Report ==
    /\ pc = "loop"
    /\ idx > Len(names)
    /\ reported' = TRUE
    /\ pc' = "finally"
    /\ UNCHANGED <<startV, names, idx, success_count, results, attempted,
                   callV, browserV, endV, textVars, verifyVars>>

\* variant of LoopUpdate: the counter is incremented whatever func returned
LoopUpdateCountAll ==
    /\ pc = "loop_update"
    /\ success_count' = success_count + 1
    /\ results' = Append(results, opRes = "true")
    /\ idx' = idx + 1
    /\ pc' = "loop"
    /\ UNCHANGED <<startV, names, attempted, reported, callV, browserV, endV,
                   textVars, verifyVars>>

\* variant of LoopUpdate: the loop is left at the first call that returns false
LoopUpdateStopOnFailure ==
    /\ pc = "loop_update"
    /\ success_count' = IF opRes = "true" THEN success_count + 1 ELSE success_count
    /\ results' = Append(results, opRes = "true")
    /\ idx' = IF opRes = "true" THEN idx + 1 ELSE Len(names) + 1
    /\ pc' = "loop"
    /\ UNCHANGED <<startV, names, attempted, reported, callV, browserV, endV,
                   textVars, verifyVars>>

\* if func(name): success_count += 1; pbar.update(1); next name
LoopUpdate ==
    /\ pc = "loop_update"
    /\ success_count' = IF opRes = "true" THEN success_count + 1 ELSE success_count
    /\ results' = Append(results, opRes = "true")
    /\ idx' = idx + 1
    /\ pc' = "loop"
    /\ UNCHANGED <<startV, names, attempted, reported, callV, browserV, endV,
                   textVars, verifyVars>>

-----------------------------------------------------------------------------
\* The browser steps.  A call of the driver raises when the browser session is
\* gone; _wait_for_element returns the element when the page has it and None
\* after its timeout (the TimeoutException is caught inside it).

\* a statement of the try block of login / add_name / download_configuration
\* raises: control goes to the except clause of that function
RaiseTo(handler) ==
    /\ pc' = handler /\ exc' = "Exception" /\ raised' = TRUE
    /\ callLog' = Append(callLog, "raise")
    /\ UNCHANGED <<op, loginRes, opRes, missing, browserV>>

\* login returns r
LoginReturn(r, entry, miss) ==
    /\ loginRes' = r /\ missing' = miss
    /\ callLog' = callLog \o <<entry, IF r = "true" THEN "login_true" ELSE "login_false">>
    /\ pc' = "after_login"
    /\ UNCHANGED <<op, opRes, exc, raised>>

\* add_name / download_configuration returns r to its caller
OpReturn(r, entries, miss) ==
    /\ opRes' = r /\ missing' = miss
    /\ callLog' = callLog \o entries \o <<IF r = "true" THEN "ret_true" ELSE "ret_false">>
    /\ pc' = IF mode \in ListModes THEN "loop_update" ELSE "finally"
    /\ UNCHANGED <<op, loginRes>>

\* what _wait_for_element may answer for an element of page p
Located(p) == IF driverUp /\ page = p THEN BOOLEAN ELSE {FALSE}

\* variant of LoginProbe: the answer of the probe is not used
LoginProbeIgnored ==
    /\ pc = "login_probe"
    /\ IF ~driverUp THEN RaiseTo("login_except")
       ELSE /\ callLog' = Append(callLog, IF page = "clients" THEN "probe_found"
                                                               ELSE "probe_timeout")
            /\ pc' = "login_get"
            /\ UNCHANGED <<op, loginRes, opRes, exc, missing, raised, browserV>>
    /\ UNCHANGED <<startV, batchV, endV, textVars, verifyVars>>

\* if self._wait_for_element(<Clients marker>, timeout=2): return True
LoginProbe ==
    /\ pc = "login_probe"
    /\ IF ~driverUp THEN RaiseTo("login_except")
       ELSE IF page = "clients"
       THEN LoginReturn("true", "probe_found", missing) /\ UNCHANGED browserV
       ELSE /\ callLog' = Append(callLog, "probe_timeout")
            /\ pc' = "login_get"
            /\ UNCHANGED <<op, loginRes, opRes, exc, missing, raised, browserV>>
    /\ UNCHANGED <<startV, batchV, endV, textVars, verifyVars>>

\* self.driver.get(self.config.url): the panel answers with its login form,
\* with the client list (the session is still valid) or not at all
LoginGet ==
    /\ pc = "login_get"
    /\ IF ~driverUp THEN RaiseTo("login_except")
       ELSE /\ \E p \in {"login", "clients", "blank"} : page' = p
            /\ callLog' = Append(callLog, "get_url")
            /\ pc' = "login_fields"
            /\ UNCHANGED <<op, loginRes, opRes, exc, missing, raised, driverUp,
                           passwordSubmits>>
    /\ UNCHANGED <<startV, batchV, endV, textVars, verifyVars>>

\* password_field, login_button = two waits; if not (both): return False
LoginFields ==
    /\ pc = "login_fields"
    /\ IF ~driverUp THEN RaiseTo("login_except")
       ELSE \E field \in Located("login"), button \in Located("login") :
                IF field /\ button
                THEN /\ callLog' = Append(callLog, "fields_found")
                     /\ pc' = "login_submit"
                     /\ UNCHANGED <<op, loginRes, opRes, exc, missing, raised, browserV>>
                ELSE /\ LoginReturn("false", "fields_timeout",
                                    IF ~field THEN "password_field" ELSE "login_button")
                     /\ UNCHANGED browserV
    /\ UNCHANGED <<startV, batchV, endV, textVars, verifyVars>>

\* password_field.clear(); send_keys(password); login_button.click(): the
\* panel accepts the password or shows the form again
LoginSubmit ==
    /\ pc = "login_submit"
    /\ IF ~driverUp THEN RaiseTo("login_except")
       ELSE /\ passwordSubmits' = passwordSubmits + 1
            /\ \E p \in {"clients", "login"} : page' = p
            /\ callLog' = callLog \o <<"type_password", "click_login">>
            /\ pc' = "login_verify"
            /\ UNCHANGED <<op, loginRes, opRes, exc, missing, raised, driverUp>>
    /\ UNCHANGED <<startV, batchV, endV, textVars, verifyVars>>

\* return bool(self._wait_for_element(<Clients marker>))
LoginVerify ==
    /\ pc = "login_verify"
    /\ IF ~driverUp THEN RaiseTo("login_except")
       ELSE /\ \E found \in Located("clients") :
                   IF found THEN LoginReturn("true", "marker_found", missing)
                   ELSE LoginReturn("false", "marker_timeout", "marker")
            /\ UNCHANGED browserV
    /\ UNCHANGED <<startV, batchV, endV, textVars, verifyVars>>

\* except Exception in login: log, return False
LoginExcept ==
    /\ pc = "login_except"
    /\ loginRes' = "false" /\ exc' = "none"
    /\ callLog' = Append(callLog, "login_false")
    /\ pc' = "after_login"
    /\ UNCHANGED <<op, opRes, missing, raised, browserV>>
    /\ UNCHANGED <<startV, batchV, endV, textVars, verifyVars>>

\* variant of AfterLogin: the result of login is not tested
AfterLoginUngated ==
    /\ pc = "after_login"
    /\ pc' = IF op = "add" THEN "add_button" ELSE "dl_row"
    /\ UNCHANGED <<callV, browserV>>
    /\ UNCHANGED <<startV, batchV, endV, textVars, verifyVars>>

\* if not self.login(): return False
AfterLogin ==
    /\ pc = "after_login"
    /\ IF loginRes = "true"
       THEN /\ pc' = IF op = "add" THEN "add_button" ELSE "dl_row"
            /\ UNCHANGED <<callV, browserV>>
       ELSE /\ OpReturn("false", <<>>, missing)
            /\ UNCHANGED <<exc, raised, browserV>>
    /\ UNCHANGED <<startV, batchV, endV, textVars, verifyVars>>

\* one "wait for the element, return False without it, else act on it" step
\* of add_name
AddStep(here, element, act, next) ==
    /\ pc = here
    /\ IF ~driverUp THEN RaiseTo("op_except")
       ELSE \E found \in Located("clients") :
                IF found
                THEN /\ callLog' = callLog \o act
                     /\ pc' = next
                     /\ UNCHANGED <<op, loginRes, opRes, exc, missing, raised>>
                ELSE OpReturn("false", <<>>, element) /\ UNCHANGED <<exc, raised>>
    /\ UNCHANGED <<browserV, startV, batchV, endV, textVars, verifyVars>>

\* add_button = wait; if not add_button: return False; add_button.click()
AddButton == AddStep("add_button", "add_button", <<"click_add">>, "add_input")

\* input_box = wait; if not input_box: return False; clear(); send_keys(name)
AddInput == AddStep("add_input", "name_input", <<"type_name">>, "add_submit")

\* submit_button = wait; if not submit_button: return False; click()
AddSubmit == AddStep("add_submit", "submit_button", <<"click_submit">>, "add_verify")

\* verification = wait(<span of the name>); return bool(verification)
AddVerify ==
    /\ pc = "add_verify"
    /\ IF ~driverUp THEN RaiseTo("op_except")
       ELSE \E found \in Located("clients") :
                /\ IF found THEN OpReturn("true", <<"verify_found">>, missing)
                   ELSE OpReturn("false", <<"verify_timeout">>, "verification")
                /\ UNCHANGED <<exc, raised>>
    /\ UNCHANGED <<browserV, startV, batchV, endV, textVars, verifyVars>>

\* person_element = wait(<row of the name>); if not person_element: return False
DlRow ==
    /\ pc = "dl_row"
    /\ IF ~driverUp THEN RaiseTo("op_except")
       ELSE \E found \in Located("clients") :
                IF found
                THEN /\ callLog' = Append(callLog, "row_found")
                     /\ pc' = "dl_link"
                     /\ UNCHANGED <<op, loginRes, opRes, exc, missing, raised>>
                ELSE OpReturn("false", <<"row_timeout">>, "client_row")
                     /\ UNCHANGED <<exc, raised>>
    /\ UNCHANGED <<browserV, startV, batchV, endV, textVars, verifyVars>>

\* download_link = person_element.find_element(...), which raises
\* NoSuchElementException without the link; download_url = its href
DlLink ==
    /\ pc = "dl_link"
    /\ IF ~driverUp THEN RaiseTo("op_except")
       ELSE \E found \in Located("clients") :
                IF found
                THEN /\ callLog' = Append(callLog, "link_found")
                     /\ pc' = "dl_get"
                     /\ UNCHANGED <<op, loginRes, opRes, exc, missing, raised>>
                ELSE /\ pc' = "op_except" /\ exc' = "Exception" /\ raised' = TRUE
                     /\ missing' = "download_link"
                     /\ callLog' = Append(callLog, "raise")
                     /\ UNCHANGED <<op, loginRes, opRes>>
    /\ UNCHANGED <<browserV, startV, batchV, endV, textVars, verifyVars>>

\* self.driver.get(download_url): the download starts and the page stays, or
\* the browser leaves the client list
DlGet ==
    /\ pc = "dl_get"
    /\ IF ~driverUp THEN RaiseTo("op_except")
       ELSE /\ \E p \in {page, "blank"} : page' = p
            /\ callLog' = Append(callLog, "get_download")
            /\ pc' = "dl_verify"
            /\ UNCHANGED <<op, loginRes, opRes, exc, missing, raised, driverUp,
                           passwordSubmits>>
    /\ UNCHANGED <<startV, batchV, endV, textVars, verifyVars>>

\* return self._verify_download(name + ".conf"), explored on its own in
\* SpecVerify: here the file is seen by a poll or it is not
DlVerify ==
    /\ pc = "dl_verify"
    /\ \E seen \in BOOLEAN :
           OpReturn(IF seen THEN "true" ELSE "false", <<"poll">>, missing)
    /\ UNCHANGED <<exc, raised>>
    /\ UNCHANGED <<browserV, startV, batchV, endV, textVars, verifyVars>>

\* variant of OpExcept: the exception is raised again
OpExceptReraise ==
    /\ pc = "op_except"
    /\ pc' = "finally"
    /\ UNCHANGED <<callV, browserV, startV, batchV, endV, textVars, verifyVars>>

\* except Exception in add_name / download_configuration: log, return False
OpExcept ==
    /\ pc = "op_except"
    /\ exc' = "none"
    /\ OpReturn("false", <<>>, missing)
    /\ UNCHANGED raised
    /\ UNCHANGED <<browserV, startV, batchV, endV, textVars, verifyVars>>

-----------------------------------------------------------------------------
\* The finally clause, and what happens around the program.

\* variant of Close: the error of driver.quit() is not caught
CloseRaises ==
    /\ pc = "finally"
    /\ closeCalls' = closeCalls + 1
    /\ driverUp' = FALSE
    /\ \E failed \in BOOLEAN :
           /\ closeError' = failed
           /\ pc' = IF failed \/ exc = "Exception" THEN "crashed"
                    ELSE IF exc = "KeyboardInterrupt" THEN "interrupted"
                    ELSE "done"
           /\ crashAt' = IF failed THEN "close"
                         ELSE IF exc = "Exception" THEN "dispatch" ELSE crashAt
    /\ UNCHANGED <<startV, batchV, callV, page, passwordSubmits, sessionOpened,
                   textVars, verifyVars>>

\* finally: automation.close(), whose driver.quit() may raise: the error is
\* logged and dropped.  An exception that left the try block goes on after it.
Close ==
    /\ pc = "finally"
    /\ closeCalls' = closeCalls + 1
    /\ driverUp' = FALSE
    /\ \E failed \in BOOLEAN : closeError' = failed
    /\ pc' = IF exc = "Exception" THEN "crashed"
             ELSE IF exc = "KeyboardInterrupt" THEN "interrupted"
             ELSE "done"
    /\ crashAt' = IF exc = "Exception" THEN "dispatch" ELSE crashAt
    /\ UNCHANGED <<startV, batchV, callV, page, passwordSubmits, sessionOpened,
                   textVars, verifyVars>>

\* a KeyboardInterrupt is delivered while the try block runs: no except clause
\* of the program catches it (they catch Exception), the finally clause runs
Interrupt ==
    /\ pc \in TryPcs
    /\ exc' = "KeyboardInterrupt"
    /\ pc' = "finally"
    /\ UNCHANGED <<op, loginRes, opRes, callLog, missing, raised>>
    /\ UNCHANGED <<browserV, startV, batchV, endV, textVars, verifyVars>>

\* the browser process dies
BrowserCrash ==
    /\ pc \in TryPcs
    /\ driverUp
    /\ driverUp' = FALSE /\ page' = "blank"
    /\ UNCHANGED <<pc, passwordSubmits, startV, batchV, callV, endV, textVars, verifyVars>>

\* the panel ends the session and shows its login form again
SessionLost ==
    /\ pc \in TryPcs
    /\ driverUp /\ page = "clients"
    /\ page' = "login"
    /\ UNCHANGED <<pc, driverUp, passwordSubmits, startV, batchV, callV, endV,
                   textVars, verifyVars>>

Next ==
    \/ ReadInfo \/ LookupKeys \/ Construct \/ Dispatch \/ ReadNames
    \/ LoopCall \/ Report \/ LoopUpdate
    \/ LoginProbe \/ LoginGet \/ LoginFields \/ LoginSubmit \/ LoginVerify
    \/ LoginExcept \/ AfterLogin
    \/ AddButton \/ AddInput \/ AddSubmit \/ AddVerify
    \/ DlRow \/ DlLink \/ DlGet \/ DlVerify \/ OpExcept
    \/ Close \/ Interrupt \/ BrowserCrash \/ SessionLost

Spec == InitMain /\ [][Next]_vars

-----------------------------------------------------------------------------
\* Claims about the run of main().

Range(q) == {q[i] : i \in DOMAIN q}

Terminal == pc \in {"done", "crashed", "interrupted"}

\* C1: in process_name_list the success counter is at every point of the loop
\* at most the number of names already processed, the reported count is at
\* most the length of the list, and it is the number of names for which the
\* operation returned true.
C1_SuccessCountIsTrueResults ==
    /\ success_count = Cardinality({i \in DOMAIN results : results[i]})
    /\ success_count <= Len(results)
    /\ Len(results) <= Len(names)
    /\ names # <<>> => Len(results) = idx - 1
    /\ reported => Len(results) = Len(names) /\ success_count <= Len(names)

\* C1 witness: a list of three names was reported with two successes.
C1_Witness ==
    reported /\ Len(names) = 3 /\ success_count = 2

\* C2: the batch loop calls the operation on every name once, in list order,
\* one call at a time, whatever the calls return, and the completion report
\* comes only after the last name was attempted.
C2_EveryNameOnceInOrder ==
    /\ Len(attempted) <= Len(names)
    /\ attempted = SubSeq(names, 1, Len(attempted))
    /\ Len(attempted) - Len(results) \in {0, 1}
    /\ pc = "loop" => Len(attempted) = Len(results)
    /\ (pc \in CallPcs \cup {"loop_update"} /\ mode \in ListModes)
           => Len(attempted) = Len(results) + 1 /\ Len(attempted) = idx
    /\ reported => attempted = names /\ Len(results) = Len(names)

\* C2 witness: the report was made for three names, after a call that returned
\* false was followed by one that returned true.
C2_Witness ==
    /\ reported /\ Len(names) = 3
    /\ \E i, j \in DOMAIN results : i < j /\ ~results[i] /\ results[j]

LoginElements == {"marker", "password_field", "login_button"}

\* C3: login, add_name and download_configuration never let an exception of a
\* browser step reach their caller, and they return false when a required
\* element could not be located or a browser step raised.
C3_OperationsReturnFalseOnFailure ==
    /\ exc = "Exception" => pc \in {"login_except", "op_except"}
    /\ crashAt # "dispatch"
    /\ pc = "loop_update" => opRes \in {"true", "false"}
    /\ (pc \in {"finally", "done"} /\ mode \in {"add-one", "download-one"} /\ exc = "none")
           => opRes \in {"true", "false"}
    /\ pc = "after_login" => loginRes \in {"true", "false"}
    /\ opRes = "true" => missing = "none" /\ ~raised
    /\ loginRes = "true" => missing \notin LoginElements
    /\ (pc = "after_login" /\ raised) => loginRes = "false"

\* C3 witness: a download whose row had no download link (find_element raised)
\* returned false to the batch loop.
C3_Witness ==
    /\ pc = "loop_update" /\ op = "download"
    /\ missing = "download_link" /\ raised /\ opRes = "false" /\ exc = "none"

\* C4: a login that finds the Clients marker returns true without loading the
\* login page and without typing or submitting the password; the password is
\* only ever submitted from a page that does not show the marker.
C4_LoginShortCircuits ==
    [][ /\ (pc = "login_probe" /\ driverUp /\ page = "clients"
              /\ pc' \in {"after_login", "login_get", "login_except"})
           => /\ pc' = "after_login" /\ loginRes' = "true"
              /\ page' = page /\ passwordSubmits' = passwordSubmits
              /\ callLog' = callLog \o <<"probe_found", "login_true">>
        /\ passwordSubmits' # passwordSubmits
           => page # "clients" /\ passwordSubmits' = passwordSubmits + 1 ]_vars

\* C4 witness: the second call of a batch found the marker left by the login
\* of the first call, the password having been submitted once.
C4_Witness ==
    /\ Len(attempted) = 2 /\ passwordSubmits = 1
    /\ pc = "after_login" /\ callLog = <<"probe_found", "login_true">>

\* C6: when the browser session was opened, the program ends with the session
\* closed exactly once, whatever the mode and whatever happened in the try
\* block; an error raised by the close does not make the program fail.
C6_ClosedExactlyOnce ==
    /\ closeCalls <= 1
    /\ closeCalls = 1 => sessionOpened
    /\ (Terminal /\ sessionOpened) => closeCalls = 1
    /\ (closeError /\ exc = "none") => pc = "done"
    /\ pc = "finally" => closeCalls = 0

\* C6 witness: the try block was left by an interrupt, the session was closed
\* once, and the close itself raised.
C6_Witness ==
    pc = "interrupted" /\ sessionOpened /\ closeCalls = 1 /\ closeError

StartupFailures == {"open_config", "parse_config", "missing_key", "construct"}

\* C9 (as amended): an error ends the program with an uncaught exception only
\* when it is raised at start-up, before the try block: info.txt cannot be
\* opened, one of its lines is neither blank nor a comment and has no '=', the
\* IP or password key is missing, or the browser session cannot be started.
\* Once the session is constructed, every failure (unreadable name file,
\* empty name list, an exception of a browser step in login, add or download,
\* an error of the close) is logged and the run ends normally.
C9_OnlyStartupFailuresCrash ==
    /\ pc = "crashed" <=> crashAt # "none"
    /\ crashAt \in StartupFailures \cup {"none"}
    /\ pc = "crashed" => ~sessionOpened /\ closeCalls = 0
    /\ (Terminal /\ sessionOpened /\ exc # "KeyboardInterrupt") => pc = "done"

\* C9 witness: a run in which a browser step raised, the operation returned
\* false and the close raised as well has ended normally.
C9_Witness ==
    pc = "done" /\ raised /\ opRes = "false" /\ closeError

\* C9 as stated: the only uncaught exception is the missing IP or password key.
C9_Original ==
    pc = "crashed" => crashAt = "missing_key"

Interactions == {"click_add", "type_name", "click_submit", "verify_found",
                 "verify_timeout", "row_found", "row_timeout", "link_found",
                 "get_download", "poll"}

\* C10: add_name and download_configuration act on the page only after login
\* returned true in the same call; when login returns false they return false
\* without any further interaction.
C10_GatedByLogin ==
    /\ pc \in AddPcs \cup DownloadPcs \cup {"op_except"} => loginRes = "true"
    /\ \A i \in DOMAIN callLog :
           callLog[i] \in Interactions
               => \E j \in 1..(i - 1) : callLog[j] = "login_true"
    /\ "login_false" \in Range(callLog)
           => Range(callLog) \cap Interactions = {} /\ opRes # "true"
    /\ (loginRes = "false" /\ opRes # "none") => opRes = "false"

\* C10 witness: the password was submitted and not accepted, login returned
\* false and the operation returned false right after it.
C10_Witness ==
    /\ loginRes = "false" /\ missing = "marker" /\ opRes = "false"
    /\ SubSeq(callLog, Len(callLog) - 1, Len(callLog)) = <<"login_false", "ret_false">>

====
